---- MODULE Spec2Model ----
(***************************************************************************)
(* Model of scripts/fix-height.py: a command line tool that sets the       *)
(* height of a JSON map document and shifts the 'y' coordinates by the     *)
(* height difference.                                                      *)
(*                                                                         *)
(* A JSON value is the record [t, n, kids]:                                *)
(*   t = "obj"  : kids is the ordered sequence of [k |-> key, v |-> value] *)
(*   t = "arr"  : kids is the sequence of [k |-> "", v |-> element]        *)
(*   t = "int"  : n is the integer                                         *)
(*   t = "bool" : n is 1 for true and 0 for false (Python: bool <: int)    *)
(*   t = "str"  : n identifies the string                                  *)
(*   t = "null"                                                            *)
(* Objects have unique keys and numbers are integers (no floats).          *)
(* A string of the program (a path) is the sequence of its code points.    *)
(***************************************************************************)
EXTENDS Integers, Sequences, FiniteSets, TLC

VARIABLES file, pc, data, height, dry_run, changes, printed, out,
          fileAtStart, loaded, opened, hist

vars == <<file, pc, data, height, dry_run, changes, printed, out,
          fileAtStart, loaded, opened, hist>>

\* Number of invocations of the tool in one behaviour.
MaxRuns == 2

\* Values of the --height option that are tried.
Targets == {0, 5, 10, 15}

----------------------------------------------------------------------------
\* JSON values

I(n) == [t |-> "int", n |-> n, kids |-> <<>>]
B(b) == [t |-> "bool", n |-> IF b THEN 1 ELSE 0, kids |-> <<>>]
S(n) == [t |-> "str", n |-> n, kids |-> <<>>]
Null == [t |-> "null", n |-> 0, kids |-> <<>>]
O(kids) == [t |-> "obj", n |-> 0, kids |-> kids]
A(items) == [t |-> "arr", n |-> 0,
             kids |-> [i \in 1..Len(items) |-> [k |-> "", v |-> items[i]]]]
KV(k, v) == [k |-> k, v |-> v]

\* The value of a variable that holds no document (before json.load).
NoData == [t |-> "none", n |-> 0, kids |-> <<>>]

\* dict.get(key, default)
Get(obj, key, default) ==
  IF \E i \in 1..Len(obj.kids) : obj.kids[i].k = key
  THEN obj.kids[CHOOSE i \in 1..Len(obj.kids) : obj.kids[i].k = key].v
  ELSE default

HasKey(obj, key) == obj.t = "obj" /\ \E i \in 1..Len(obj.kids) : obj.kids[i].k = key

----------------------------------------------------------------------------
\* Strings as sequences of code points

KeyChars(key) ==
  CASE key = "dimensions" -> <<100, 105, 109, 101, 110, 115, 105, 111, 110, 115>>
    [] key = "height" -> <<104, 101, 105, 103, 104, 116>>
    [] key = "width" -> <<119, 105, 100, 116, 104>>
    [] key = "objects" -> <<111, 98, 106, 101, 99, 116, 115>>
    [] key = "nested" -> <<110, 101, 115, 116, 101, 100>>
    [] key = "x" -> <<120>>
    [] key = "y" -> <<121>>
    [] key = "z" -> <<122>>
    [] key = "o" -> <<111>>
    [] key = "a" -> <<97>>
    [] key = "b" -> <<98>>
    [] key = "a.b" -> <<97, 46, 98>>
    [] key = "in" -> <<105, 110>>
    [] key = "l" -> <<108>>

\* str(i) for a list index
IndexChars(i) ==
  IF i < 10 THEN <<48 + i>> ELSE <<48 + (i \div 10), 48 + (i % 10)>>

\* p < q for two strings (Python compares code point by code point)
StrLess(p, q) ==
  \E i \in 1..Len(q) :
    /\ \A j \in 1..(i - 1) : j <= Len(p) /\ p[j] = q[j]
    /\ (i > Len(p) \/ p[i] < q[i])

----------------------------------------------------------------------------
\* The documents the tool is run on

\* the scenario of the specification
DocScenario ==
  O(<<KV("dimensions", O(<<KV("height", I(10)), KV("width", I(5))>>)),
      KV("objects", A(<<O(<<KV("x", I(1)), KV("y", I(2))>>),
                        O(<<KV("nested", O(<<KV("y", I(100))>>))>>)>>))>>)

\* a 'y' directly at the top level of the document
DocTopY ==
  O(<<KV("y", I(3)), KV("dimensions", O(<<KV("height", I(10))>>)),
      KV("o", O(<<KV("y", I(4))>>))>>)

\* booleans under 'y'
DocBoolY ==
  O(<<KV("dimensions", O(<<KV("height", I(10))>>)),
      KV("o", O(<<KV("y", B(TRUE)), KV("x", B(FALSE))>>))>>)

\* 'y' keys inside the dimensions object, height not the first key
DocDimY ==
  O(<<KV("dimensions", O(<<KV("y", I(7)), KV("height", I(10)),
                           KV("in", O(<<KV("y", I(1))>>)),
                           KV("l", A(<<O(<<KV("y", I(2))>>)>>))>>)),
      KV("o", O(<<KV("y", I(4)),
                  KV("dimensions", O(<<KV("height", I(3)), KV("y", I(1))>>))>>))>>)

\* no dimensions entry
DocNoDim == O(<<KV("o", O(<<KV("y", I(1))>>))>>)

\* a dimensions entry without height
DocNoHeight ==
  O(<<KV("dimensions", O(<<KV("width", I(5))>>)), KV("o", O(<<KV("y", I(1))>>))>>)

\* height zero
DocZero ==
  O(<<KV("dimensions", O(<<KV("height", I(0))>>)), KV("o", O(<<KV("y", I(1))>>))>>)

\* the document is an array
DocArray == A(<<O(<<KV("y", I(1))>>)>>)

\* dimensions is not an object
DocDimNull == O(<<KV("dimensions", Null), KV("o", O(<<KV("y", I(1))>>))>>)

\* height is a string
DocStrHeight ==
  O(<<KV("dimensions", O(<<KV("height", S(1))>>)), KV("o", O(<<KV("y", I(1))>>))>>)

\* non-numeric values under 'y'; a list under 'y'
DocOddY ==
  O(<<KV("dimensions", O(<<KV("height", I(10))>>)),
      KV("o", O(<<KV("y", S(2)), KV("z", O(<<KV("y", Null)>>))>>)),
      KV("y", A(<<O(<<KV("y", I(1))>>)>>))>>)

\* two leaves with the same printed path
DocSamePath ==
  O(<<KV("dimensions", O(<<KV("height", I(10))>>)),
      KV("a.b", O(<<KV("y", I(2))>>)),
      KV("a", O(<<KV("b", O(<<KV("y", I(1))>>))>>))>>)

\* no 'y' at all
DocNoY ==
  O(<<KV("dimensions", O(<<KV("height", I(10))>>)), KV("o", O(<<KV("x", I(1))>>))>>)

\* keys and indexes whose walk order is not the sorted order
DocOrder ==
  O(<<KV("dimensions", O(<<KV("height", I(5))>>)),
      KV("b", O(<<KV("y", I(1))>>)),
      KV("a", A(<<Null, Null, O(<<KV("y", I(2))>>), Null, Null, Null,
                  Null, Null, Null, Null, O(<<KV("y", I(3))>>)>>))>>)

Docs == {DocScenario, DocTopY, DocBoolY, DocDimY, DocNoDim, DocNoHeight, DocZero,
         DocArray, DocDimNull, DocStrHeight, DocOddY, DocSamePath, DocNoY, DocOrder}

----------------------------------------------------------------------------
\* The file: content is <<>> for an empty (truncated) file and <<doc>> for the
\* JSON text of doc; nl tells whether a newline follows the text.

FileOf(doc, nl) == [content |-> <<doc>>, nl |-> nl]
Truncated == [content |-> <<>>, nl |-> FALSE]

\* json.load: trailing white space is ignored, an empty file is a parse error
Parses(f) == Len(f.content) > 0
Parse(f) == f.content[1]

----------------------------------------------------------------------------
\* find_and_update_y_coords

\* isinstance(value, (int, float)): a Python bool is an int
IsNumber(value) == value.t \in {"int", "bool"}

\* key == 'y' and isinstance(value, (int, float))
IsYCoord(key, value) == key = "y" /\ IsNumber(value)

\* value + height_diff: the sum of a bool and an int is an int
Shift(value, height_diff) == I(value.n + height_diff)

\* new_path = f"{path}.{key}" if path else key
DictPath(path, key) ==
  IF path # <<>> THEN path \o <<46>> \o KeyChars(key) ELSE KeyChars(key)

ListPathOneBased(path, i) == path \o <<91>> \o IndexChars(i + 1) \o <<93>>

\* new_path = f"{path}[{i}]"
ListPath(path, i) == path \o <<91>> \o IndexChars(i) \o <<93>>

\* (new_path, old_value, obj[key])
ChangeRecord(new_path, old_value, new_value) ==
  [path |-> new_path, old |-> old_value, new |-> new_value]

RECURSIVE find_and_update_y_coords(_, _, _)
RECURSIVE WalkItems(_, _, _, _)

\* The loop over obj.items() or enumerate(obj), from the i-th item on: the
\* result is the object after the loop and the changes the loop appended.
WalkItems(obj, i, height_diff, path) ==
  IF i > Len(obj.kids) THEN [obj |-> obj, changes |-> <<>>]
  ELSE
    LET key == obj.kids[i].k
        value == obj.kids[i].v
        new_path == IF obj.t = "obj" THEN DictPath(path, key)
                    ELSE ListPath(path, i - 1)
        item == IF obj.t = "obj" /\ IsYCoord(key, value)
                THEN [obj |-> Shift(value, height_diff),
                      changes |-> <<ChangeRecord(new_path, value,
                                                 Shift(value, height_diff))>>]
                ELSE find_and_update_y_coords(value, height_diff, new_path)
        rest == WalkItems([obj EXCEPT !.kids[i].v = item.obj], i + 1,
                          height_diff, path)
    IN [obj |-> rest.obj, changes |-> item.changes \o rest.changes]

find_and_update_y_coords(obj, height_diff, path) ==
  IF obj.t \in {"obj", "arr"} THEN WalkItems(obj, 1, height_diff, path)
  ELSE [obj |-> obj, changes |-> <<>>]

----------------------------------------------------------------------------
\* main

SkipNothing(key) == FALSE

\* if key != 'dimensions': the keys of the top level that are not walked
Skipped(key) == key = "dimensions"

RECURSIVE WalkTop(_, _, _)
\* for key, value in data.items(): ... changes.extend(find_and_update_y_coords(value, height_diff, key))
WalkTop(d, i, height_diff) ==
  IF i > Len(d.kids) THEN [obj |-> d, changes |-> <<>>]
  ELSE
    LET key == d.kids[i].k
        item == IF Skipped(key) THEN [obj |-> d.kids[i].v, changes |-> <<>>]
                ELSE find_and_update_y_coords(d.kids[i].v, height_diff, KeyChars(key))
        rest == WalkTop([d EXCEPT !.kids[i].v = item.obj], i + 1, height_diff)
    IN [obj |-> rest.obj, changes |-> item.changes \o rest.changes]

\* data['dimensions']['height'] = height
SetHeight(d, h) ==
  LET di == CHOOSE i \in 1..Len(d.kids) : d.kids[i].k = "dimensions"
      dims == d.kids[di].v
      hi == CHOOSE i \in 1..Len(dims.kids) : dims.kids[i].k = "height"
  IN [d EXCEPT !.kids[di].v.kids[hi].v = I(h)]

\* r1 < r2 for two tuples (path, old_val, new_val)
TupleLess(r1, r2) ==
  \/ StrLess(r1.path, r2.path)
  \/ r1.path = r2.path /\ r1.old.n < r2.old.n
  \/ r1.path = r2.path /\ r1.old.n = r2.old.n /\ r1.new.n < r2.new.n

RECURSIVE Insert(_, _)
Insert(r, s) ==
  IF s = <<>> THEN <<r>>
  ELSE IF TupleLess(r, Head(s)) THEN <<r>> \o s
  ELSE <<Head(s)>> \o Insert(r, Tail(s))

RECURSIVE InsertAll(_, _)
InsertAll(todo, done) ==
  IF todo = <<>> THEN done ELSE InsertAll(Tail(todo), Insert(Head(todo), done))

Unsorted(s) == s

\* sorted(changes)
Sorted(s) == InsertAll(s, <<>>)

AlwaysWrite(dry) == TRUE

\* if not dry_run
ShouldWrite(dry) == ~dry

NeverZero(height_diff) == FALSE

\* if height_diff == 0
NoChangeNeeded(height_diff) == height_diff = 0

\* current_height == 0 (False == 0 in Python)
IsZero(value) == IsNumber(value) /\ value.n = 0

\* data.get('dimensions', {}).get('height', 0), where the lookup is defined
HasGet(value) == value.t = "obj"
Dimensions(d) == Get(d, "dimensions", O(<<>>))
CurrentHeight(d) == Get(Dimensions(d), "height", I(0))

----------------------------------------------------------------------------
\* The runs of the tool.  hist keeps one entry per finished run.

Init ==
  /\ file \in {FileOf(d, nl) : d \in Docs, nl \in BOOLEAN}
  /\ pc = "idle"
  /\ data = NoData
  /\ height = 0
  /\ dry_run = FALSE
  /\ changes = <<>>
  /\ printed = <<>>
  /\ out = <<>>
  /\ fileAtStart = file
  /\ loaded = NoData
  /\ opened = FALSE
  /\ hist = <<>>

\* The end of a run: a return of main or an exception that leaves it.
Exit(outcome) ==
  /\ pc' = "idle"
  /\ hist' = Append(hist, [target |-> height, dry |-> dry_run,
                           input |-> fileAtStart, outcome |-> outcome,
                           loaded |-> loaded', data |-> data',
                           changes |-> changes', printed |-> printed',
                           out |-> out',
                           opened |-> opened', result |-> file'])

\* The command line: fix-height.py SRC --height h [--dry-run]
Invoke(h, dry) ==
  /\ pc = "idle"
  /\ Len(hist) < MaxRuns
  /\ pc' = "invoked"
  /\ height' = h
  /\ dry_run' = dry
  /\ data' = NoData
  /\ loaded' = NoData
  /\ changes' = <<>>
  /\ printed' = <<>>
  /\ out' = <<>>
  /\ opened' = FALSE
  /\ fileAtStart' = file
  /\ UNCHANGED <<file, hist>>

\* with open(src_path, 'r') as f: data = json.load(f)
Load ==
  /\ pc = "invoked"
  /\ UNCHANGED <<file, height, dry_run, changes, printed, out, fileAtStart, opened>>
  /\ IF Parses(file)
     THEN /\ data' = Parse(file)
          /\ loaded' = Parse(file)
          /\ pc' = "loaded"
          /\ UNCHANGED hist
     ELSE /\ UNCHANGED <<data, loaded>>
          /\ Exit("JSONDecodeError")

\* From the read of the current height to the log of the changes.
Compute ==
  /\ pc = "loaded"
  /\ UNCHANGED <<file, height, dry_run, fileAtStart, loaded, opened>>
  /\ IF ~HasGet(data) \/ ~HasGet(Dimensions(data))
     THEN /\ UNCHANGED <<data, changes, printed, out>>
          /\ Exit("AttributeError")
     ELSE LET current_height == CurrentHeight(data) IN
       IF IsZero(current_height)
       THEN /\ out' = <<"error_no_height">>
            /\ UNCHANGED <<data, changes, printed>>
            /\ Exit("no_height")
       ELSE IF ~IsNumber(current_height)
       THEN /\ UNCHANGED <<data, changes, printed, out>>
            /\ Exit("TypeError")
       ELSE LET height_diff == height - current_height.n IN
         IF NoChangeNeeded(height_diff)
         THEN /\ out' = <<"no_changes_needed">>
              /\ UNCHANGED <<data, changes, printed>>
              /\ Exit("no_change")
         ELSE LET w == WalkTop(SetHeight(data, height), 1, height_diff) IN
              /\ data' = w.obj
              /\ changes' = w.changes
              /\ printed' = Sorted(w.changes)
              /\ out' = <<"header", IF w.changes # <<>> THEN "changes"
                                    ELSE "no_y_found">>
              /\ pc' = "logged"
              /\ UNCHANGED hist

\* open(src_path, 'w') truncates the file
OpenForWrite ==
  /\ pc = "logged"
  /\ ShouldWrite(dry_run)
  /\ file' = Truncated
  /\ opened' = TRUE
  /\ pc' = "opened"
  /\ UNCHANGED <<data, height, dry_run, changes, printed, out, fileAtStart, loaded, hist>>

\* json.dump(data, f, indent=2)
Dump ==
  /\ pc = "opened"
  /\ file' = [content |-> <<data>>, nl |-> FALSE]
  /\ pc' = "dumped"
  /\ UNCHANGED <<data, height, dry_run, changes, printed, out, fileAtStart, loaded,
                 opened, hist>>

\* f.write('\n'), the file is closed and the update is confirmed
WriteNewline ==
  /\ pc = "dumped"
  /\ file' = [file EXCEPT !.nl = TRUE]
  /\ out' = Append(out, "updated")
  /\ UNCHANGED <<data, height, dry_run, changes, printed, fileAtStart, loaded, opened>>
  /\ Exit("updated")

\* else: click.echo("(Dry run - no changes were made)")
DryRunNotice ==
  /\ pc = "logged"
  /\ ~ShouldWrite(dry_run)
  /\ out' = Append(out, "dry_run")
  /\ UNCHANGED <<file, data, height, dry_run, changes, printed, fileAtStart, loaded,
                 opened>>
  /\ Exit("dry_run")

\* A write to the open file raises OSError (or the run is interrupted): the
\* with block closes the file and the exception leaves main.
WriteFails ==
  /\ pc \in {"opened", "dumped"}
  /\ UNCHANGED <<file, data, height, dry_run, changes, printed, out, fileAtStart,
                 loaded, opened>>
  /\ Exit("OSError")

Next ==
  \/ \E h \in Targets, dry \in BOOLEAN : Invoke(h, dry)
  \/ Load
  \/ Compute
  \/ OpenForWrite
  \/ Dump
  \/ WriteNewline
  \/ DryRunNotice
  \/ WriteFails

Spec == Init /\ [][Next]_vars

TypeOK ==
  /\ pc \in {"idle", "invoked", "loaded", "logged", "opened", "dumped"}
  /\ Len(hist) <= MaxRuns
  /\ Len(file.content) <= 1

----------------------------------------------------------------------------
\* Vocabulary of the properties.  None of it uses the walk of the program.

Runs == {hist[i] : i \in 1..Len(hist)}

IsContainer(value) == value.t \in {"obj", "arr"}

\* the document has a height field: an object with an object under
\* 'dimensions' that has an entry 'height'
HasHeight(doc) == HasKey(doc, "dimensions") /\ HasKey(Get(doc, "dimensions", Null), "height")
HeightField(doc) == Get(Get(doc, "dimensions", Null), "height", Null)
HasIntHeight(doc) == HasHeight(doc) /\ HeightField(doc).t = "int"

\* the run read its document
Read(r) == r.loaded # NoData

\* an apply-mode run that went to its end
Applied(r) == r.outcome = "updated"

\* the document the run wrote
Written(r) == Parse(r.result)

\* target height - current height
Delta(r) == r.target - HeightField(r.loaded).n

\* old and new have the same shape at this node
SameShape(old, new) ==
  /\ new.t = old.t
  /\ Len(new.kids) = Len(old.kids)
  /\ \A i \in 1..Len(old.kids) : new.kids[i].k = old.kids[i].k

\* A location is the sequence of the keys and indexes that lead to a value.
KeySeg(key) == [key |-> key, idx |-> -1]
IdxSeg(i) == [key |-> "", idx |-> i]
HeightLoc == <<KeySeg("dimensions"), KeySeg("height")>>

\* the locations where two documents differ, each with its two values
RECURSIVE Diff(_, _, _)
Diff(old, new, loc) ==
  IF IsContainer(old) /\ SameShape(old, new)
  THEN UNION {Diff(old.kids[i].v, new.kids[i].v,
                   Append(loc, IF old.t = "obj" THEN KeySeg(old.kids[i].k)
                               ELSE IdxSeg(i - 1))) : i \in 1..Len(old.kids)}
  ELSE IF old = new THEN {}
  ELSE {[loc |-> loc, old |-> old, new |-> new]}

\* the display string of a location: root.child[2].y
RECURSIVE Render(_)
Render(loc) ==
  IF loc = <<>> THEN <<>>
  ELSE LET front == Render(SubSeq(loc, 1, Len(loc) - 1))
           seg == loc[Len(loc)]
       IN IF seg.idx >= 0 THEN front \o <<91>> \o IndexChars(seg.idx) \o <<93>>
          ELSE IF front = <<>> THEN KeyChars(seg.key)
          ELSE front \o <<46>> \o KeyChars(seg.key)

RecordOf(d) == [path |-> Render(d.loc), old |-> d.old, new |-> d.new]

\* the sequence of records lists the differences, one record for each
Lists(records, diffs) ==
  /\ Len(records) = Cardinality(diffs)
  /\ \A rec \in {records[i] : i \in 1..Len(records)} \cup {RecordOf(d) : d \in diffs} :
       Cardinality({i \in 1..Len(records) : records[i] = rec})
         = Cardinality({d \in diffs : RecordOf(d) = rec})

----------------------------------------------------------------------------
\* C1 (as claimed): after an apply-mode run on a document with a nonzero
\* integer height and a different target, every integer leaf under the key 'y'
\* outside the top-level 'dimensions' object, the top level of the document
\* included, is its original value plus delta.
RECURSIVE YShifted(_, _, _)
YShifted(old, new, delta) ==
  IsContainer(old) /\ SameShape(old, new) =>
    \A i \in 1..Len(old.kids) :
      IF old.t = "obj" /\ old.kids[i].k = "y" /\ old.kids[i].v.t = "int"
      THEN new.kids[i].v = I(old.kids[i].v.n + delta)
      ELSE YShifted(old.kids[i].v, new.kids[i].v, delta)

C1_EveryYShifted ==
  \A r \in Runs :
    Applied(r) /\ HasIntHeight(r.loaded) /\ Delta(r) # 0 =>
      /\ SameShape(r.loaded, Written(r))
      /\ \A i \in 1..Len(r.loaded.kids) :
           LET key == r.loaded.kids[i].k
               old == r.loaded.kids[i].v
               new == Written(r).kids[i].v
           IN key # "dimensions" =>
                IF key = "y" /\ old.t = "int" THEN new = I(old.n + Delta(r))
                ELSE YShifted(old, new, Delta(r))

----------------------------------------------------------------------------
\* C2: after an apply-mode run the top-level 'dimensions' object has the same
\* keys in the same order, its 'height' is the target height and every other
\* entry, a 'y' at any depth included, has its original value.
C2_DimensionsOnlyHeight ==
  \A r \in Runs :
    Applied(r) =>
      LET old == Get(r.loaded, "dimensions", Null)
          new == Get(Written(r), "dimensions", Null)
      IN /\ SameShape(r.loaded, Written(r))
         /\ SameShape(old, new)
         /\ \A i \in 1..Len(old.kids) :
              IF old.kids[i].k = "height" THEN new.kids[i].v = I(r.target)
              ELSE new.kids[i].v = old.kids[i].v

C2_Witness ==
  \E r \in Runs :
    /\ Applied(r)
    /\ HasKey(Get(r.loaded, "dimensions", Null), "y")
    /\ HasKey(Get(Get(r.loaded, "dimensions", Null), "in", Null), "y")
    /\ r.printed # <<>>

----------------------------------------------------------------------------
\* C3 (as claimed): an apply-mode run keeps the keys and their order, the
\* lengths of the arrays and every value except the height field and the
\* integer leaves under 'y'; a string, a boolean or a null under 'y' is kept.
RECURSIVE Preserved(_, _)
Preserved(old, new) ==
  IF IsContainer(old)
  THEN /\ SameShape(old, new)
       /\ \A i \in 1..Len(old.kids) :
            \/ old.t = "obj" /\ old.kids[i].k = "y" /\ old.kids[i].v.t = "int"
            \/ Preserved(old.kids[i].v, new.kids[i].v)
  ELSE new = old

C3_RestPreserved ==
  \A r \in Runs :
    Applied(r) =>
      /\ SameShape(r.loaded, Written(r))
      /\ \A i \in 1..Len(r.loaded.kids) :
           LET key == r.loaded.kids[i].k
               old == r.loaded.kids[i].v
               new == Written(r).kids[i].v
           IN IF key = "dimensions"
              THEN /\ SameShape(old, new)
                   /\ \A j \in 1..Len(old.kids) :
                        old.kids[j].k # "height" => new.kids[j].v = old.kids[j].v
              ELSE (key = "y" /\ old.t = "int") \/ Preserved(old, new)

----------------------------------------------------------------------------
\* C4 (as claimed): at every point of a run the file holds the original
\* content or the fully transformed document.
C4_FileNeverPartial ==
  pc # "idle" => file = fileAtStart \/ file.content = <<data>>

----------------------------------------------------------------------------
\* C5 (as claimed): a run on a document without a height field (no
\* 'dimensions', no 'height' in it, or no object to hold them) or with the
\* height zero prints the error, ends without an exception, mutates nothing
\* and leaves the file as it was.
C5_NoHeightIsCleanError ==
  \A r \in Runs :
    Read(r) /\ (~HasHeight(r.loaded) \/ HeightField(r.loaded) = I(0)) =>
      /\ r.outcome = "no_height"
      /\ r.out = <<"error_no_height">>
      /\ r.data = r.loaded
      /\ ~r.opened
      /\ r.result = r.input

----------------------------------------------------------------------------
\* C6: during and after a run with the dry-run flag the file is never opened
\* for writing and its content is the content at the start of the run.
C6_DryRunNeverWrites ==
  /\ pc # "idle" /\ dry_run => file = fileAtStart /\ ~opened
  /\ \A r \in Runs : r.dry => r.result = r.input /\ ~r.opened

C6_Witness ==
  \E r \in Runs :
    r.dry /\ r.outcome = "dry_run" /\ r.data # r.loaded /\ Delta(r) < 0

----------------------------------------------------------------------------
\* C7 (as claimed): a run on a document whose height equals the target height
\* reports that no changes are needed, mutates nothing, never opens the file
\* for writing and leaves the file as it was.
NoChangeRun(r) ==
  /\ r.outcome = "no_change"
  /\ r.out = <<"no_changes_needed">>
  /\ r.data = r.loaded
  /\ r.changes = <<>>
  /\ ~r.opened
  /\ r.result = r.input

C7_EqualHeightNoChange ==
  \A r \in Runs :
    Read(r) /\ HasIntHeight(r.loaded) /\ HeightField(r.loaded).n = r.target =>
      NoChangeRun(r)

\* C7 (amended): the same for a height that is not zero.
C7_EqualNonzeroHeightNoChange ==
  \A r \in Runs :
    /\ Read(r) /\ HasIntHeight(r.loaded)
    /\ HeightField(r.loaded).n = r.target /\ r.target # 0
    => NoChangeRun(r)

C7_Witness ==
  \E r \in Runs :
    /\ ~r.dry /\ HasIntHeight(r.loaded) /\ HeightField(r.loaded).n = r.target
    /\ r.target # 0 /\ r.outcome = "no_change"

----------------------------------------------------------------------------
\* a dry run and an apply-mode run on the same file with the same target
\* produce the same change records in the same order
SameLogInBothModes ==
  \A r1 \in Runs, r2 \in Runs :
    r1.dry /\ ~r2.dry /\ r1.input = r2.input /\ r1.target = r2.target =>
      /\ r1.changes = r2.changes
      /\ r1.printed = r2.printed
      /\ Applied(r2) => r1.outcome = "dry_run"

\* C8 (as claimed): both modes produce the same change records, and the
\* records are exactly the differences between the original document and the
\* document the apply-mode run writes.
C8_LogIsTheDifference ==
  /\ SameLogInBothModes
  /\ \A r \in Runs :
       Applied(r) => Lists(r.printed, Diff(r.loaded, Written(r), <<>>))

\* C8 (amended): the records are exactly the differences other than the one
\* at dimensions.height.
C8_LogIsTheDifferenceButHeight ==
  /\ SameLogInBothModes
  /\ \A r \in Runs :
       Applied(r) =>
         Lists(r.printed,
               {d \in Diff(r.loaded, Written(r), <<>>) : d.loc # HeightLoc})

C8_Witness ==
  \E r1 \in Runs, r2 \in Runs :
    /\ r1.dry /\ r1.outcome = "dry_run" /\ Applied(r2)
    /\ r1.input = r2.input /\ r1.target = r2.target
    /\ Len(r2.printed) >= 2
    /\ \E i \in 1..Len(r2.printed) : \E j \in 1..Len(r2.printed[i].path) :
         r2.printed[i].path[j] = 91

----------------------------------------------------------------------------
\* the run went as far as the log of its changes
Logged(r) == r.outcome \in {"updated", "dry_run", "OSError"}

\* C9: the log of a run has one record (path, old value, old value + delta)
\* for each leaf the run shifted and no other record, the records are printed
\* in ascending order of their path, and the notice that no coordinate was
\* found is printed exactly when there is no record.
C9_LogListsShiftedLeaves ==
  \A r \in Runs :
    Logged(r) =>
      LET shifted == {d \in Diff(r.loaded, r.data, <<>>) : d.loc # HeightLoc} IN
      /\ Lists(r.printed, shifted)
      /\ Lists(r.changes, shifted)
      /\ \A i \in 1..Len(r.printed) :
           r.printed[i].new.n = r.printed[i].old.n + (r.target - CurrentHeight(r.loaded).n)
      /\ \A i \in 1..Len(r.printed), j \in 1..Len(r.printed) :
           i < j => ~StrLess(r.printed[j].path, r.printed[i].path)
      /\ r.out[2] = (IF r.printed = <<>> THEN "no_y_found" ELSE "changes")

C9_Witness ==
  \E r \in Runs :
    /\ Logged(r)
    /\ Len(r.printed) >= 3
    /\ r.printed # r.changes

----------------------------------------------------------------------------
\* C10 (as claimed): an apply-mode run to a target H2 different from the
\* nonzero integer height H1, followed by an apply-mode run to H1 whose write
\* does not fail, gives back the original document.
C10_RoundTrip ==
  \A i \in 1..(Len(hist) - 1) :
    LET r1 == hist[i]
        r2 == hist[i + 1]
    IN /\ Applied(r1) /\ HasIntHeight(r1.loaded) /\ Delta(r1) # 0
       /\ ~r2.dry /\ r2.target = HeightField(r1.loaded).n /\ r2.outcome # "OSError"
       => Applied(r2) /\ Written(r2) = r1.loaded

====
